---- MODULE Spec2Model ----
(***************************************************************************)
(* Model of blocked-matrix-multiplication.cpp: main() (argument parsing,   *)
(* the interactive prompt, validation, allocation, the batch run, the      *)
(* thread-count sweep, the report) and the three multiplication            *)
(* strategies, the two parallel ones at the granularity of a single read   *)
(* and a single write of a cell of c by a worker thread.                   *)
(*                                                                         *)
(* Doubles.  The matrices hold doubles whose values never influence        *)
(* control flow.  A double is a sum, the sequence of its terms: 0.0 is the *)
(* empty sum << >>, a value drawn by initializeMatrix is the sum of one    *)
(* term that names the draw, and x + a*b is x with the term a*b appended.  *)
(* The order of the terms is kept because floating-point addition is not   *)
(* associative: two cells are equal in the model only if the same products *)
(* were added in the same order.                                           *)
(* Times are whole clock ticks; a quotient of two times is an IEEE         *)
(* quotient (a reduced fraction, inf or nan).                              *)
(*                                                                         *)
(* Inputs.  argv and cin deliver N in 0..MaxArgN, NEIB in 1..MaxArgNEIB,   *)
(* method in 1..3 and a thread count in 0..MaxArgThreads.  NEIB = 0        *)
(* (N % NEIB is undefined) and negative numbers are outside the model.     *)
(*                                                                         *)
(* Specifications.  Spec is the whole program from its first statement.    *)
(* StrategySpec is one call of one strategy: it starts in the state        *)
(* main() is in right after the call of lines 108-112 (c reset, the clock  *)
(* read) for every N in 0..MaxN, every NEIB in 1..MaxN the validation lets *)
(* through and every team size in 1..MaxTeam, and runs to the return of    *)
(* the call.                                                               *)
(*                                                                         *)
(* numerical-integration.cpp.  IntegrationSpec is one call of              *)
(* rectangleMethod or trapezoidalMethod of that program, from its first    *)
(* statement to its return; it has its own variables, which the actions of *)
(* the matrix program leave alone.                                         *)
(***************************************************************************)
EXTENDS Integers, Sequences, FiniteSets, Bags, TLC

MaxArgN == 1
MaxArgNEIB == 2
MaxArgThreads == 2
MaxClock == 1
MaxN == 2
MaxTeam == 3
MaxX == 3
MaxDx == 2
MaxWorkers == 2

maxThreads == 16

Sizes == 0..MaxArgN
BlockSizes == 1..MaxArgNEIB
Methods == 1..3
ThreadArgs == 0..MaxArgThreads

VARIABLES
  pc,              \* position of main()
  batchMode, N, NEIB, method, specificThreads,
  entered,         \* cin has delivered a configuration at least once
  allocated,       \* the vectors a, b, c of lines 82-84 exist
  a, b, c,
  results, sequentialTime, i, result,
  diag,            \* the latest validation printed the divisibility error
  csv,             \* the CSV lines written (line 116)
  table,           \* the rows written by the report loop (lines 161-172)
  exitStatus,      \* -1 while the process runs
  wtime,           \* the wall clock read by omp_get_wtime()
  running,         \* the strategy being executed, or "none"
  spc,             \* position inside the strategy
  nThreads, now, p,
  iters,           \* the iterations of the latest parallel loop: who runs
                   \* each, how far it is, the value of c[i][j] it has loaded
  calls            \* history: the strategy invocations made so far

\* numerical-integration.cpp: one call of rectangleMethod or trapezoidalMethod
VARIABLES
  ipc,             \* position of the call: "idle", "call", "region", "done"
  rule,            \* the function called: "rectangle" or "trapezoidal"
  x1, x2, dx,      \* its arguments
  team,            \* its argument nThreads
  steps,           \* its local N
  pending,         \* the iterations i no thread has taken yet
  thr,             \* per thread: where it is in s += f(x1 + i * dx)
  sCopies,         \* sCopies[0] is the variable s, sCopies[t] the private
                   \* copy the reduction clause gives thread t
  adds,            \* history: the iterations whose s += ... has completed
  area             \* the area member of the Result returned

matrixVars == <<pc, batchMode, N, NEIB, method, specificThreads, entered,
                allocated, a, b, c, results, sequentialTime, i, result, diag,
                csv, table, exitStatus, wtime, running, spc, nThreads, now, p,
                iters, calls>>

integVars == <<ipc, rule, x1, x2, dx, team, steps, pending, thr, sCopies, adds,
               area>>

vars == <<matrixVars, integVars>>

mainVars == <<pc, batchMode, N, NEIB, method, specificThreads, entered,
              allocated, results, sequentialTime, i, result, diag, csv, table,
              exitStatus>>

----------------------------------------------------------------------------
(* Values *)

Zero == << >>

\* line 249: the value dis(gen) gives for cell (row, col) of matrix name
Draw(name, row, col) == <<[m |-> name, r |-> row, c |-> col]>>

Product(x, y) == [x |-> x, y |-> y]

\* c[i][j] + a[i][k] * b[k][j]
MulAdd(acc, x, y) == Append(acc, Product(x, y))

Rows(n) == 0..(n - 1)

initializeMatrix(name, size) ==
  [row \in Rows(size) |-> [col \in Rows(size) |-> Draw(name, row, col)]]

ZeroMatrix(size) == [row \in Rows(size) |-> [col \in Rows(size) |-> Zero]]

\* ResetMatrix left out
ResetMatrixSkipped(mat, size) == mat

\* the reset loops (lines 102-104, 125-127, 140-142): c[row][col] = 0.0
ResetMatrix(mat, size) ==
  [row \in DOMAIN mat |->
     [col \in DOMAIN mat[row] |->
        IF row \in Rows(size) /\ col \in Rows(size) THEN Zero ELSE mat[row][col]]]

----------------------------------------------------------------------------
(* Loop nests, as the sequence of (i, j, k) they visit *)

Op(row, col, k) == [i |-> row, j |-> col, k |-> k]

\* lines 230-233: for i, for j, for k
SequentialBody(n) ==
  [idx \in 1..(n * n * n) |->
     Op((idx - 1) \div (n * n), ((idx - 1) \div n) % n, (idx - 1) % n)]

\* lines 217-219: the j and k loops of one iteration i of the parallel loop
StandardBody(row, n) ==
  [idx \in 1..(n * n) |-> Op(row, (idx - 1) \div n, (idx - 1) % n)]

\* BlockedBody with the k loop starting at 0 in every block r (r * NEIB lost)
BlockedBodyNoBlockOffset(pp, q, nb, neib) ==
  [idx \in 1..(nb * neib * neib * neib) |->
     LET rem == (idx - 1) % (neib * neib * neib)
     IN Op((pp * neib) + (rem \div (neib * neib)),
           (q * neib) + ((rem \div neib) % neib),
           rem % neib)]

\* BlockedBody with the parallel loop over r and the q loop inside it
BlockedBodyParallelR(pp, q, nb, neib) ==
  [idx \in 1..(nb * neib * neib * neib) |->
     LET qq  == (idx - 1) \div (neib * neib * neib)
         rem == (idx - 1) % (neib * neib * neib)
     IN Op((pp * neib) + (rem \div (neib * neib)),
           (qq * neib) + ((rem \div neib) % neib),
           (q * neib) + (rem % neib))]

\* BlockedBody with the r loop of line 200 running from NB - 1 down to 0
BlockedBodyDescendingR(pp, q, nb, neib) ==
  [idx \in 1..(nb * neib * neib * neib) |->
     LET r   == (nb - 1) - ((idx - 1) \div (neib * neib * neib))
         rem == (idx - 1) % (neib * neib * neib)
     IN Op((pp * neib) + (rem \div (neib * neib)),
           (q * neib) + ((rem \div neib) % neib),
           (r * neib) + (rem % neib))]

\* lines 200-204: the r, i, j, k loops of one iteration q of the parallel loop
BlockedBody(pp, q, nb, neib) ==
  [idx \in 1..(nb * neib * neib * neib) |->
     LET r   == (idx - 1) \div (neib * neib * neib)
         rem == (idx - 1) % (neib * neib * neib)
     IN Op((pp * neib) + (rem \div (neib * neib)),
           (q * neib) + ((rem \div neib) % neib),
           (r * neib) + (rem % neib))]

\* line 192
NumBlocks(n, neib) == n \div neib

RECURSIVE Accumulate(_, _, _, _, _)
Accumulate(mat, ma, mb, ops, idx) ==
  IF idx > Len(ops) THEN mat
  ELSE LET o == ops[idx]
       IN Accumulate([mat EXCEPT ![o.i][o.j] = MulAdd(mat[o.i][o.j], ma[o.i][o.k], mb[o.k][o.j])],
                     ma, mb, ops, idx + 1)

----------------------------------------------------------------------------
(* IEEE division of the report *)

RECURSIVE Gcd(_, _)
Gcd(x, y) == IF y = 0 THEN x ELSE Gcd(y, x % y)

Num(n, d) == [kind |-> "num", n |-> n \div Gcd(n, d), d |-> d \div Gcd(n, d)]
Inf == [kind |-> "inf", n |-> 0, d |-> 0]
NaN == [kind |-> "nan", n |-> 0, d |-> 0]

\* double / double, both finite and non-negative
DivTimes(x, y) ==
  IF y = 0 THEN (IF x = 0 THEN NaN ELSE Inf) ELSE Num(x, y)

\* double / short, the divisor a thread count >= 1
DivByCount(s, n) ==
  IF s.kind = "num" THEN Num(s.n, s.d * n) ELSE s

----------------------------------------------------------------------------
(* main() *)

\* Indivisible testing the wrong method number
IndivisibleWrongMethod(meth, n, neib) == meth = 2 /\ n % neib # 0

\* lines 59 and 70: method == 1 && N % NEIB != 0
Indivisible(meth, n, neib) == meth = 1 /\ n % neib # 0

\* lines 107-113
BatchStrategy(meth) ==
  IF meth = 3 THEN "sequential" ELSE IF meth = 1 THEN "blocked" ELSE "standard"

\* lines 144-146
SweepStrategy(meth) == IF meth = 1 THEN "blocked" ELSE "standard"

NoResult == [timestamp |-> 0, threads |-> 0]

\* line 121 / 135 before any call: no Result exists
NoArea == [sum |-> EmptyBag, times |-> 0]

\* no call of numerical-integration.cpp is in progress
IntegrationIdle ==
  /\ ipc = "idle" /\ rule = "none"
  /\ x1 = 0 /\ x2 = 0 /\ dx = 1
  /\ team = 0 /\ steps = 0
  /\ pending = {} /\ thr = << >> /\ sCopies = << >>
  /\ adds = EmptyBag
  /\ area = NoArea

\* blocked-matrix-multiplication.cpp before the first statement of main()
MatrixIdle ==
  /\ pc = "start"
  /\ batchMode = FALSE
  /\ N = 0 /\ NEIB = 1 /\ method = 0 /\ specificThreads = 0
  /\ entered = FALSE
  /\ allocated = FALSE
  /\ a = << >> /\ b = << >> /\ c = << >>
  /\ results = << >> /\ sequentialTime = 0 /\ i = 0 /\ result = NoResult
  /\ diag = FALSE /\ csv = << >> /\ table = << >>
  /\ exitStatus = -1
  /\ wtime = 0
  /\ running = "none" /\ spc = "idle" /\ nThreads = 0 /\ now = 0 /\ p = 0
  /\ iters = << >>
  /\ calls = << >>

Init == MatrixIdle /\ IntegrationIdle

strategyVars == <<running, spc, nThreads, now, p, iters, calls>>

\* lines 40-46: argc == 5 reads the four arguments and sets batchMode
ParseArgs ==
  /\ pc = "start"
  /\ \E argc5 \in BOOLEAN :
       IF argc5
       THEN /\ \E n \in Sizes, neib \in BlockSizes, meth \in Methods, th \in ThreadArgs :
                 /\ N' = n /\ NEIB' = neib /\ method' = meth /\ specificThreads' = th
            /\ batchMode' = TRUE
            /\ pc' = "validate"
       ELSE /\ UNCHANGED <<N, NEIB, method, specificThreads, batchMode>>
            /\ pc' = "prompt"
  /\ UNCHANGED <<entered, allocated, a, b, c, results, sequentialTime, i, result,
                 diag, csv, table, exitStatus, wtime>>
  /\ UNCHANGED strategyVars
  /\ UNCHANGED integVars

\* Prompt with the continue of line 62 replaced by the return 1 of line 75
PromptExitsOnError ==
  /\ pc = "prompt"
  /\ \E n \in Sizes, neib \in BlockSizes, meth \in Methods :
       /\ N' = n /\ NEIB' = neib /\ method' = meth
       /\ diag' = Indivisible(meth, n, neib)
       /\ pc' = IF Indivisible(meth, n, neib) THEN "exit" ELSE "prompt"
       /\ exitStatus' = IF Indivisible(meth, n, neib) THEN 1 ELSE exitStatus
  /\ entered' = TRUE
  /\ UNCHANGED <<batchMode, specificThreads, allocated, a, b, c, results,
                 sequentialTime, i, result, csv, table, wtime>>
  /\ UNCHANGED strategyVars
  /\ UNCHANGED integVars

\* lines 52-64: one pass of while (true); the body has no break, and the
\* continue of line 62 and the end of the body both go back to line 54
Prompt ==
  /\ pc = "prompt"
  /\ \E n \in Sizes, neib \in BlockSizes, meth \in Methods :
       /\ N' = n /\ NEIB' = neib /\ method' = meth
       /\ diag' = Indivisible(meth, n, neib)
  /\ entered' = TRUE
  /\ pc' = "prompt"
  /\ UNCHANGED <<batchMode, specificThreads, allocated, a, b, c, results,
                 sequentialTime, i, result, csv, table, exitStatus, wtime>>
  /\ UNCHANGED strategyVars
  /\ UNCHANGED integVars

\* lines 68-79: the head of the do loop
Validate ==
  /\ pc = "validate"
  /\ IF Indivisible(method, N, NEIB)
     THEN /\ diag' = TRUE
          /\ IF batchMode
             THEN pc' = "exit" /\ exitStatus' = 1
             ELSE pc' = "validate" /\ UNCHANGED exitStatus
     ELSE /\ pc' = "alloc"
          /\ UNCHANGED <<diag, exitStatus>>
  /\ UNCHANGED <<batchMode, N, NEIB, method, specificThreads, entered, allocated,
                 a, b, c, results, sequentialTime, i, result, csv, table, wtime>>
  /\ UNCHANGED strategyVars
  /\ UNCHANGED integVars

\* lines 82-97
Allocate ==
  /\ pc = "alloc"
  /\ allocated' = TRUE
  /\ a' = initializeMatrix("a", N)
  /\ b' = initializeMatrix("b", N)
  /\ c' = ZeroMatrix(N)
  /\ results' = << >>
  /\ sequentialTime' = 0
  /\ pc' = "dispatch"
  /\ UNCHANGED <<batchMode, N, NEIB, method, specificThreads, entered, i, result,
                 diag, csv, table, exitStatus, wtime>>
  /\ UNCHANGED strategyVars
  /\ UNCHANGED integVars

\* a call of one of the three strategies: its first statement reads the clock
Invoke(name, n) ==
  /\ running' = name
  /\ spc' = "loop"
  /\ nThreads' = n
  /\ now' = wtime
  /\ p' = 0
  /\ iters' = << >>
  /\ calls' = Append(calls, [strategy |-> name, threads |-> n])

\* lines 99-113: the reset and the call of the batch run
BatchRun ==
  /\ pc = "dispatch"
  /\ batchMode /\ specificThreads > 0
  /\ c' = ResetMatrix(c, N)
  /\ Invoke(BatchStrategy(method),
            IF BatchStrategy(method) = "sequential" THEN 1 ELSE specificThreads)
  /\ pc' = "batch_call"
  /\ UNCHANGED <<batchMode, N, NEIB, method, specificThreads, entered, allocated,
                 a, b, results, sequentialTime, i, result, diag, csv, table,
                 exitStatus, wtime>>
  /\ UNCHANGED integVars

\* BatchEmit without the return 0 of line 117: control falls out of the if
\* into the report
BatchEmitNoReturn ==
  /\ pc = "batch_call" /\ running = "none"
  /\ csv' = Append(csv, [method |-> method, threads |-> specificThreads,
                         time |-> result.timestamp])
  /\ pc' = "report"
  /\ UNCHANGED <<batchMode, N, NEIB, method, specificThreads, entered, allocated,
                 a, b, c, results, sequentialTime, i, result, diag, table, wtime,
                 exitStatus>>
  /\ UNCHANGED strategyVars
  /\ UNCHANGED integVars

\* BatchEmit printing result.threads in place of the specificThreads of line 116
BatchEmitResultThreads ==
  /\ pc = "batch_call" /\ running = "none"
  /\ csv' = Append(csv, [method |-> method, threads |-> result.threads,
                         time |-> result.timestamp])
  /\ pc' = "exit"
  /\ exitStatus' = 0
  /\ UNCHANGED <<batchMode, N, NEIB, method, specificThreads, entered, allocated,
                 a, b, c, results, sequentialTime, i, result, diag, table, wtime>>
  /\ UNCHANGED strategyVars
  /\ UNCHANGED integVars

\* lines 116-117
BatchEmit ==
  /\ pc = "batch_call" /\ running = "none"
  /\ csv' = Append(csv, [method |-> method, threads |-> specificThreads,
                         time |-> result.timestamp])
  /\ pc' = "exit"
  /\ exitStatus' = 0
  /\ UNCHANGED <<batchMode, N, NEIB, method, specificThreads, entered, allocated,
                 a, b, c, results, sequentialTime, i, result, diag, table, wtime>>
  /\ UNCHANGED strategyVars
  /\ UNCHANGED integVars

\* lines 122-129: the reset and the call of the single sequential run
SequentialRun ==
  /\ pc = "dispatch"
  /\ ~(batchMode /\ specificThreads > 0)
  /\ method = 3
  /\ c' = ResetMatrix(c, N)
  /\ Invoke("sequential", 1)
  /\ pc' = "seq_call"
  /\ UNCHANGED <<batchMode, N, NEIB, method, specificThreads, entered, allocated,
                 a, b, results, sequentialTime, i, result, diag, csv, table,
                 exitStatus, wtime>>
  /\ UNCHANGED integVars

\* lines 130-132
SequentialStore ==
  /\ pc = "seq_call" /\ running = "none"
  /\ sequentialTime' = result.timestamp
  /\ results' = Append(results, [first |-> 1, second |-> result])
  /\ pc' = "report"
  /\ UNCHANGED <<batchMode, N, NEIB, method, specificThreads, entered, allocated,
                 a, b, c, i, result, diag, csv, table, exitStatus, wtime>>
  /\ UNCHANGED strategyVars
  /\ UNCHANGED integVars

\* line 137: int i = 0
SweepBegin ==
  /\ pc = "dispatch"
  /\ ~(batchMode /\ specificThreads > 0)
  /\ method # 3
  /\ i' = 0
  /\ pc' = "sweep"
  /\ UNCHANGED <<batchMode, N, NEIB, method, specificThreads, entered, allocated,
                 a, b, c, results, sequentialTime, result, diag, csv, table,
                 exitStatus, wtime>>
  /\ UNCHANGED strategyVars
  /\ UNCHANGED integVars

\* SweepRun with the thread count i in place of the i + 1 of lines 144-146
SweepRunThreadsFromZero ==
  /\ pc = "sweep"
  /\ i < maxThreads
  /\ c' = ResetMatrix(c, N)
  /\ Invoke(SweepStrategy(method), i)
  /\ pc' = "sweep_call"
  /\ UNCHANGED <<batchMode, N, NEIB, method, specificThreads, entered, allocated,
                 a, b, results, sequentialTime, i, result, diag, csv, table,
                 exitStatus, wtime>>
  /\ UNCHANGED integVars

\* lines 137-146: i < maxThreads, the reset and the call with i + 1 threads
SweepRun ==
  /\ pc = "sweep"
  /\ i < maxThreads
  /\ c' = ResetMatrix(c, N)
  /\ Invoke(SweepStrategy(method), i + 1)
  /\ pc' = "sweep_call"
  /\ UNCHANGED <<batchMode, N, NEIB, method, specificThreads, entered, allocated,
                 a, b, results, sequentialTime, i, result, diag, csv, table,
                 exitStatus, wtime>>
  /\ UNCHANGED integVars

\* SweepStore without the if (i == 0) of line 149
SweepStoreEveryBaseline ==
  /\ pc = "sweep_call" /\ running = "none"
  /\ sequentialTime' = result.timestamp
  /\ results' = Append(results, [first |-> i + 1, second |-> result])
  /\ i' = i + 1
  /\ pc' = "sweep"
  /\ UNCHANGED <<batchMode, N, NEIB, method, specificThreads, entered, allocated,
                 a, b, c, result, diag, csv, table, exitStatus, wtime>>
  /\ UNCHANGED strategyVars
  /\ UNCHANGED integVars

\* lines 149-152 and the i++ of line 137
SweepStore ==
  /\ pc = "sweep_call" /\ running = "none"
  /\ sequentialTime' = IF i = 0 THEN result.timestamp ELSE sequentialTime
  /\ results' = Append(results, [first |-> i + 1, second |-> result])
  /\ i' = i + 1
  /\ pc' = "sweep"
  /\ UNCHANGED <<batchMode, N, NEIB, method, specificThreads, entered, allocated,
                 a, b, c, result, diag, csv, table, exitStatus, wtime>>
  /\ UNCHANGED strategyVars
  /\ UNCHANGED integVars

\* line 137: the loop ends when i < maxThreads fails
SweepEnd ==
  /\ pc = "sweep"
  /\ ~(i < maxThreads)
  /\ pc' = "report"
  /\ UNCHANGED <<batchMode, N, NEIB, method, specificThreads, entered, allocated,
                 a, b, c, results, sequentialTime, i, result, diag, csv, table,
                 exitStatus, wtime>>
  /\ UNCHANGED strategyVars
  /\ UNCHANGED integVars

\* lines 163-165: one row of the table
ReportRow(entry, baseline) ==
  LET currentTime == entry.second.timestamp
      speedup     == DivTimes(baseline, currentTime)
      efficiency  == DivByCount(speedup, entry.first)
  IN [threads |-> entry.first, time |-> currentTime,
      speedup |-> speedup, efficiency |-> efficiency]

\* lines 157-179 and 185-186: the table, then while (!batchMode)
Report ==
  /\ pc = "report"
  /\ table' = [idx \in 1..Len(results) |-> ReportRow(results[idx], sequentialTime)]
  /\ IF batchMode
     THEN pc' = "exit" /\ exitStatus' = 0
     ELSE pc' = "validate" /\ UNCHANGED exitStatus
  /\ UNCHANGED <<batchMode, N, NEIB, method, specificThreads, entered, allocated,
                 a, b, c, results, sequentialTime, i, result, diag, csv, wtime>>
  /\ UNCHANGED strategyVars
  /\ UNCHANGED integVars

----------------------------------------------------------------------------
(* The strategies *)

\* the iterations of the loop under the omp parallel for: q of line 199, i of
\* line 216
Units == IF running = "blocked" THEN Rows(NumBlocks(N, NEIB)) ELSE Rows(N)

\* what one iteration of that loop executes
Body(u) ==
  IF running = "blocked"
  THEN BlockedBody(p, u, NumBlocks(N, NEIB), NEIB)
  ELSE StandardBody(u, N)

Todo == [st |-> "todo", owner |-> 0, pos |-> 0, tmp |-> Zero]

Busy(t) == \E u \in DOMAIN iters : iters[u].owner = t /\ iters[u].st \in {"read", "write"}

Used == {iters[u].owner : u \in DOMAIN iters} \ {0}

\* The team of num_threads(nThreads) threads.  The loop body never reads the
\* thread number, so the threads are numbered in the order in which they take
\* their first iteration: thread t can take an iteration when every thread
\* below it already has.
CanTake(t) == t \in 1..nThreads /\ ~Busy(t) /\ (1..(t - 1)) \subseteq Used

\* lines 197-199: p < NB opens the parallel region of block-row p; line 207
\* follows the loop
BlockedLoop ==
  /\ running = "blocked" /\ spc = "loop"
  /\ IF p < NumBlocks(N, NEIB)
     THEN /\ iters' = [u \in Units |-> Todo]
          /\ spc' = "region"
     ELSE /\ UNCHANGED iters
          /\ spc' = "ret"
  /\ UNCHANGED <<running, nThreads, now, p, calls, c, a, b, wtime>>
  /\ UNCHANGED mainVars
  /\ UNCHANGED integVars

\* lines 215-216: the parallel region of the flat-parallel strategy
StandardFork ==
  /\ running = "standard" /\ spc = "loop"
  /\ iters' = [u \in Units |-> Todo]
  /\ spc' = "region"
  /\ UNCHANGED <<running, nThreads, now, p, calls, c, a, b, wtime>>
  /\ UNCHANGED mainVars
  /\ UNCHANGED integVars

\* the schedule hands iteration u of the parallel loop to thread t
WorkerTake(t, u) ==
  /\ u \in DOMAIN iters /\ iters[u].st = "todo"
  /\ CanTake(t)
  /\ iters' = [iters EXCEPT ![u] = [st |-> "read", owner |-> t, pos |-> 1, tmp |-> Zero]]
  /\ UNCHANGED <<running, spc, nThreads, now, p, calls, c, a, b, wtime>>
  /\ UNCHANGED mainVars
  /\ UNCHANGED integVars

\* lines 204 and 219, first half: the load of c[i][j]
WorkerRead(u) ==
  /\ u \in DOMAIN iters /\ iters[u].st = "read"
  /\ LET o == Body(u)[iters[u].pos]
     IN iters' = [iters EXCEPT ![u].st = "write", ![u].tmp = c[o.i][o.j]]
  /\ UNCHANGED <<running, spc, nThreads, now, p, calls, c, a, b, wtime>>
  /\ UNCHANGED mainVars
  /\ UNCHANGED integVars

\* WorkerWrite storing the sum into a[i][j]
WorkerWriteIntoA(u) ==
  /\ u \in DOMAIN iters /\ iters[u].st = "write"
  /\ LET o == Body(u)[iters[u].pos]
     IN /\ a' = [a EXCEPT ![o.i][o.j] = MulAdd(iters[u].tmp, a[o.i][o.k], b[o.k][o.j])]
        /\ iters' = [iters EXCEPT
                       ![u].st = IF iters[u].pos = Len(Body(u)) THEN "done" ELSE "read",
                       ![u].pos = iters[u].pos + 1,
                       ![u].tmp = Zero]
  /\ UNCHANGED <<running, spc, nThreads, now, p, calls, c, b, wtime>>
  /\ UNCHANGED mainVars
  /\ UNCHANGED integVars

\* lines 204 and 219, second half: the store of the sum into c[i][j], and the
\* step to the next (k, j, i, r) of the iteration
WorkerWrite(u) ==
  /\ u \in DOMAIN iters /\ iters[u].st = "write"
  /\ LET o == Body(u)[iters[u].pos]
     IN /\ c' = [c EXCEPT ![o.i][o.j] = MulAdd(iters[u].tmp, a[o.i][o.k], b[o.k][o.j])]
        /\ iters' = [iters EXCEPT
                       ![u].st = IF iters[u].pos = Len(Body(u)) THEN "done" ELSE "read",
                       ![u].pos = iters[u].pos + 1,
                       ![u].tmp = Zero]
  /\ UNCHANGED <<running, spc, nThreads, now, p, calls, a, b, wtime>>
  /\ UNCHANGED mainVars
  /\ UNCHANGED integVars

\* Join without the barrier (a nowait region)
JoinNoWait ==
  /\ spc = "region"
  /\ UNCHANGED iters
  /\ IF running = "blocked"
     THEN p' = p + 1 /\ spc' = "loop"
     ELSE p' = p /\ spc' = "ret"
  /\ UNCHANGED <<running, nThreads, now, calls, c, a, b, wtime>>
  /\ UNCHANGED mainVars
  /\ UNCHANGED integVars

\* the implicit barrier that ends an omp parallel for: the code after the
\* region runs once every iteration has been executed
Join ==
  /\ spc = "region"
  /\ \A u \in DOMAIN iters : iters[u].st = "done"
  /\ UNCHANGED iters
  /\ IF running = "blocked"
     THEN p' = p + 1 /\ spc' = "loop"
     ELSE p' = p /\ spc' = "ret"
  /\ UNCHANGED <<running, nThreads, now, calls, c, a, b, wtime>>
  /\ UNCHANGED mainVars
  /\ UNCHANGED integVars

\* lines 230-233
sequentialMatrixMultiplication(ma, mb, mc, n) ==
  Accumulate(mc, ma, mb, SequentialBody(n), 1)

\* lines 227-233, executed by the calling thread alone
SequentialLoop ==
  /\ running = "sequential" /\ spc = "loop"
  /\ c' = sequentialMatrixMultiplication(a, b, c, N)
  /\ spc' = "ret"
  /\ UNCHANGED <<running, nThreads, now, p, iters, calls, a, b, wtime>>
  /\ UNCHANGED mainVars
  /\ UNCHANGED integVars

\* lines 207, 221, 235: the second reading of the clock, which has not gone
\* back, and the Result
Return ==
  /\ spc = "ret"
  /\ \E t \in wtime..MaxClock :
       /\ wtime' = t
       /\ result' = [timestamp |-> t - now, threads |-> nThreads]
  /\ running' = "none"
  /\ spc' = "idle"
  /\ UNCHANGED <<nThreads, now, p, iters, calls, c, a, b>>
  /\ UNCHANGED <<pc, batchMode, N, NEIB, method, specificThreads, entered,
                 allocated, results, sequentialTime, i, diag, csv, table, exitStatus>>
  /\ UNCHANGED integVars

----------------------------------------------------------------------------

Next ==
  \/ ParseArgs
  \/ Prompt
  \/ Validate
  \/ Allocate
  \/ BatchRun
  \/ BatchEmit
  \/ SequentialRun
  \/ SequentialStore
  \/ SweepBegin
  \/ SweepRun
  \/ SweepStore
  \/ SweepEnd
  \/ Report
  \/ BlockedLoop
  \/ StandardFork
  \/ \E t \in 1..nThreads, u \in DOMAIN iters : WorkerTake(t, u)
  \/ \E u \in DOMAIN iters : WorkerRead(u)
  \/ \E u \in DOMAIN iters : WorkerWrite(u)
  \/ Join
  \/ SequentialLoop
  \/ Return

Spec == Init /\ [][Next]_vars

\* main() right after the call of a strategy in the batch run
StrategyInit ==
  \E n \in 0..MaxN, neib \in 1..MaxN, meth \in Methods, th \in 1..MaxTeam :
    /\ ~Indivisible(meth, n, neib)
    /\ IntegrationIdle
    /\ pc = "batch_call"
    /\ batchMode = TRUE
    /\ N = n /\ NEIB = neib /\ method = meth /\ specificThreads = th
    /\ entered = FALSE
    /\ allocated = TRUE
    /\ a = initializeMatrix("a", n)
    /\ b = initializeMatrix("b", n)
    /\ c = ResetMatrix(ZeroMatrix(n), n)
    /\ results = << >> /\ sequentialTime = 0 /\ i = 0 /\ result = NoResult
    /\ diag = FALSE /\ csv = << >> /\ table = << >>
    /\ exitStatus = -1
    /\ wtime = 0
    /\ running = BatchStrategy(meth)
    /\ spc = "loop"
    /\ nThreads = (IF BatchStrategy(meth) = "sequential" THEN 1 ELSE th)
    /\ now = 0
    /\ p = 0
    /\ iters = << >>
    /\ calls = <<[strategy |-> BatchStrategy(meth),
                  threads |-> IF BatchStrategy(meth) = "sequential" THEN 1 ELSE th]>>

StrategyNext ==
  \/ BlockedLoop
  \/ StandardFork
  \/ \E t \in 1..nThreads, u \in DOMAIN iters : WorkerTake(t, u)
  \/ \E u \in DOMAIN iters : WorkerRead(u)
  \/ \E u \in DOMAIN iters : WorkerWrite(u)
  \/ Join
  \/ SequentialLoop
  \/ Return

StrategySpec == StrategyInit /\ [][StrategyNext]_vars

\* The operating system keeps scheduling the main thread and the workers, and
\* cin keeps delivering input: a program that can take a step takes one.
FairSpec == Spec /\ WF_vars(Next)

----------------------------------------------------------------------------
(* numerical-integration.cpp: rectangleMethod and trapezoidalMethod, at the  *)
(* granularity of a single load and a single store of the accumulator by a  *)
(* thread, and their sequential counterparts.                               *)
(* x1, x2 and dx are points of a grid of whole units, dx >= 1.  The claim   *)
(* about these functions is one of exact arithmetic, where a sum does not   *)
(* depend on the order of its terms: a sum is the bag of its terms.         *)

Rules == {"rectangle", "trapezoidal"}

\* lines 172-175: the value sin(x), named by its argument
f(x) == [sin |-> x]

\* s + v
Plus(s, v) == s (+) SetToBag({v})

\* lines 118, 132, 146, 160: (int)((x2 - x1) / dx), a cast that truncates
IntCast(num, den) == IF num >= 0 THEN num \div den ELSE -((-num) \div den)

\* lines 123 and 151: i = 1 .. N; lines 137 and 165: i = 1 .. N - 1
Iterations(rl, n) == IF rl = "rectangle" THEN 1..n ELSE 1..(n - 1)

\* line 125: s *= dx; line 139: s = (s + (f(x1) + f(x2)) / 2) * dx
Finish(rl, s, xa, xb, d) ==
  IF rl = "rectangle"
  THEN [sum |-> s, times |-> d]
  ELSE [sum |-> Plus(s, [half |-> Plus(Plus(EmptyBag, f(xa)), f(xb))]),
        times |-> d]

RECURSIVE SequentialSum(_, _, _, _, _)
\* lines 151 and 165: the loop from i = k to last, s being acc
SequentialSum(xa, d, k, last, acc) ==
  IF k > last THEN acc
  ELSE SequentialSum(xa, d, k + 1, last, Plus(acc, f(xa + (k * d))))

\* lines 144-156
sequentialRectangleMethod(xa, xb, d) ==
  LET n == IntCast(xb - xa, d)
  IN Finish("rectangle", SequentialSum(xa, d, 1, n, EmptyBag), xa, xb, d)

\* lines 158-170
sequentialTrapezoidalMethod(xa, xb, d) ==
  LET n == IntCast(xb - xa, d)
  IN Finish("trapezoidal", SequentialSum(xa, d, 1, n - 1, EmptyBag), xa, xb, d)

\* a parallel loop without the reduction clause: every thread adds into s
SharedS(t) == 0

\* reduction(+: s) of lines 122 and 136: thread t adds into its private copy
ReductionCopy(t) == t

RECURSIVE CombineCopies(_, _)
\* the end of the reduction: s plus the private copies of threads 1..t
CombineCopies(copies, t) ==
  IF t = 0 THEN copies[0] ELSE CombineCopies(copies, t - 1) (+) copies[t]

IdleThread == [st |-> "idle", it |-> 0, tmp |-> EmptyBag, used |-> FALSE]

\* lines 118-122 / 132-136: N, s = 0, and the start of the parallel region,
\* where every private copy is initialised to 0
IntegrationFork ==
  /\ ipc = "call"
  /\ steps' = IntCast(x2 - x1, dx)
  /\ sCopies' = [t \in 0..team |-> EmptyBag]
  /\ pending' = Iterations(rule, IntCast(x2 - x1, dx))
  /\ thr' = [t \in 1..team |-> IdleThread]
  /\ ipc' = "region"
  /\ UNCHANGED <<rule, x1, x2, dx, team, adds, area>>
  /\ UNCHANGED matrixVars

\* the schedule hands iteration k to thread t (no schedule clause: any
\* thread, any order); threads are numbered in the order of their first
\* iteration
ThreadTake(t, k) ==
  /\ ipc = "region"
  /\ thr[t].st = "idle"
  /\ k \in pending
  /\ \A t2 \in 1..(t - 1) : thr[t2].used
  /\ thr' = [thr EXCEPT ![t] = [st |-> "load", it |-> k, tmp |-> EmptyBag,
                                used |-> TRUE]]
  /\ pending' = pending \ {k}
  /\ UNCHANGED <<ipc, rule, x1, x2, dx, team, steps, sCopies, adds, area>>
  /\ UNCHANGED matrixVars

\* lines 123 / 137, s += ...: the load of the accumulator
ThreadLoad(t) ==
  /\ ipc = "region"
  /\ thr[t].st = "load"
  /\ thr' = [thr EXCEPT ![t].st = "store", ![t].tmp = sCopies[ReductionCopy(t)]]
  /\ UNCHANGED <<ipc, rule, x1, x2, dx, team, steps, pending, sCopies, adds, area>>
  /\ UNCHANGED matrixVars

\* lines 123 / 137, s += ...: the store of the sum
ThreadStore(t) ==
  /\ ipc = "region"
  /\ thr[t].st = "store"
  /\ sCopies' = [sCopies EXCEPT ![ReductionCopy(t)] =
                   Plus(thr[t].tmp, f(x1 + (thr[t].it * dx)))]
  /\ adds' = adds (+) SetToBag({thr[t].it})
  /\ thr' = [thr EXCEPT ![t].st = "idle", ![t].it = 0, ![t].tmp = EmptyBag]
  /\ UNCHANGED <<ipc, rule, x1, x2, dx, team, steps, pending, area>>
  /\ UNCHANGED matrixVars

\* the end of the region (all iterations done, the private copies combined
\* into s), then lines 125-127 / 139-141
IntegrationJoin ==
  /\ ipc = "region"
  /\ pending = {}
  /\ \A t \in 1..team : thr[t].st = "idle"
  /\ sCopies' = [sCopies EXCEPT ![0] = CombineCopies(sCopies, team)]
  /\ area' = Finish(rule, CombineCopies(sCopies, team), x1, x2, dx)
  /\ ipc' = "done"
  /\ UNCHANGED <<rule, x1, x2, dx, team, steps, pending, thr, adds>>
  /\ UNCHANGED matrixVars

\* one call of rectangleMethod or trapezoidalMethod, for every x1 and x2 in
\* 0..MaxX, every dx in 1..MaxDx and every nThreads in 1..MaxWorkers
IntegrationInit ==
  /\ MatrixIdle
  /\ \E rl \in Rules, xa \in 0..MaxX, xb \in 0..MaxX, d \in 1..MaxDx,
        th \in 1..MaxWorkers :
       /\ rule = rl /\ x1 = xa /\ x2 = xb /\ dx = d /\ team = th
  /\ ipc = "call"
  /\ steps = 0
  /\ pending = {} /\ thr = << >> /\ sCopies = << >>
  /\ adds = EmptyBag
  /\ area = NoArea

IntegrationNext ==
  \/ IntegrationFork
  \/ \E t \in 1..team, k \in pending : ThreadTake(t, k)
  \/ \E t \in 1..team : ThreadLoad(t)
  \/ \E t \in 1..team : ThreadStore(t)
  \/ IntegrationJoin

IntegrationSpec == IntegrationInit /\ [][IntegrationNext]_vars

----------------------------------------------------------------------------
(* Claims about one call of a strategy (StrategySpec) *)

\* the call of the strategy has returned to main()
Returned == allocated /\ running = "none" /\ pc \in {"batch_call", "seq_call", "sweep_call"}

\* C[i][j] = sum over k in 0..N-1, in ascending k, of A[i][k] * B[k][j]
Dense(ma, mb, n) ==
  [row \in Rows(n) |->
     [col \in Rows(n) |->
        [k \in 1..n |-> Product(ma[row][k - 1], mb[k - 1][col])]]]

\* C1: when a call of blockedMatrixMultiplication or
\* standardMatrixMultiplication that started on an all-zero c has returned,
\* for whatever team size and interleaving of the workers, c is the c that
\* sequentialMatrixMultiplication computes from an all-zero c, and every cell
\* (i, j) holds the sum over k of a[i][k] * b[k][j].
C1_StrategiesAgree ==
  Returned =>
    /\ c = sequentialMatrixMultiplication(a, b, ZeroMatrix(N), N)
    /\ c = Dense(a, b, N)

\* a blocked call with two blocks per dimension and a team of two or more has
\* returned
C1_Witness ==
  /\ Returned
  /\ calls[Len(calls)].strategy = "blocked"
  /\ calls[Len(calls)].threads >= 2
  /\ N = 2 /\ NEIB = 1
  /\ \E u, v \in DOMAIN iters : iters[u].owner # iters[v].owner

\* the operations of iteration u that its thread has begun (the load done)
Begun(u) ==
  IF iters[u].st = "todo" THEN 0
  ELSE IF iters[u].st = "write" THEN iters[u].pos
  ELSE iters[u].pos - 1

\* the threads that have loaded or stored c[row][col] in the current region
AccessedBy(row, col) ==
  {iters[u].owner : u \in {v \in DOMAIN iters :
      \E idx \in 1..Begun(v) : Body(v)[idx].i = row /\ Body(v)[idx].j = col}}

\* the iteration of the parallel loop that the claim assigns cell (row, col)
\* to: row i in the flat-parallel strategy, block-column q in the blocked one
OwnerUnit(row, col) == IF running = "blocked" THEN col \div NEIB ELSE row

\* C2: inside a parallel region no cell of c is loaded or stored by two
\* different threads: a cell is accessed only by the one thread that runs
\* its row i (flat-parallel) or its block-column q (blocked); and the value a
\* thread has loaded from a cell is still the cell's value when the thread
\* stores its sum: no update is lost.
C2_DisjointCells ==
  spc = "region" =>
    /\ \A row \in Rows(N), col \in Rows(N) :
         /\ Cardinality(AccessedBy(row, col)) <= 1
         /\ AccessedBy(row, col) \subseteq {iters[OwnerUnit(row, col)].owner}
    /\ \A u \in DOMAIN iters :
         iters[u].st = "write" =>
           LET o == Body(u)[iters[u].pos] IN iters[u].tmp = c[o.i][o.j]

\* two different threads of a blocked region are both between their load and
\* their store, each with a non-empty partial sum
C2_Witness ==
  /\ running = "blocked" /\ spc = "region"
  /\ \E u, v \in DOMAIN iters :
       /\ iters[u].st = "write" /\ iters[v].st = "write"
       /\ iters[u].owner # iters[v].owner
       /\ iters[u].tmp # Zero /\ iters[v].tmp # Zero

Complete(row) == \A col \in Rows(N) : Len(c[row][col]) = N
Untouched(row) == \A col \in Rows(N) : c[row][col] = Zero

\* C9: the code after a parallel region runs only when every iteration of the
\* region has been executed, so no worker is at work outside a region or after
\* the call has returned; in the blocked strategy the rows of the block-rows
\* before p are finished and the rows of the block-rows after p are untouched
\* while block-row p is worked on; and when a parallel strategy reads the end
\* time every cell has received its N products.
C9_ForkJoin ==
  /\ spc # "region" => \A u \in DOMAIN iters : iters[u].st = "done"
  /\ running = "blocked" =>
       \A row \in Rows(N) :
         /\ row < p * NEIB => Complete(row)
         /\ row >= (p + 1) * NEIB => Untouched(row)
         /\ (spc = "loop" /\ row >= p * NEIB) => Untouched(row)
  /\ (running \in {"blocked", "standard"} /\ spc = "ret") =>
       \A row \in Rows(N) : Complete(row)
  /\ (Returned /\ calls[Len(calls)].strategy # "sequential") =>
       \A row \in Rows(N) : Complete(row)

\* a worker of the region of block-row 1 is about to store, block-row 0 done
C9_Witness ==
  /\ running = "blocked" /\ spc = "region" /\ p = 1
  /\ \E u \in DOMAIN iters : iters[u].st = "write"
  /\ Complete(0)

----------------------------------------------------------------------------
(* Claims about main() (Spec, FairSpec) *)

\* C3: in batch mode with method = 1 and N % NEIB # 0 nothing is allocated,
\* no strategy is called, no CSV line and no table is written, the program is
\* at the validation or has exited, and when it has exited it has printed the
\* diagnostic and its status is 1; and the blocked strategy only ever runs
\* with an N that NEIB divides.
C3_BatchRejectsIndivisible ==
  /\ (batchMode /\ method = 1 /\ N % NEIB # 0) =>
       /\ ~allocated
       /\ calls = << >> /\ csv = << >> /\ table = << >>
       /\ pc \in {"validate", "exit"}
       /\ pc = "exit" => (diag /\ exitStatus = 1)
  /\ \A idx \in 1..Len(calls) : calls[idx].strategy = "blocked" => N % NEIB = 0

\* the batch run of N = 1, NEIB = 2, method = 1 has exited
C3_Witness ==
  /\ batchMode /\ method = 1 /\ N % NEIB # 0
  /\ pc = "exit" /\ exitStatus = 1 /\ diag

BatchValid ==
  /\ batchMode /\ specificThreads >= 1
  /\ method \in Methods /\ ~(method = 1 /\ N % NEIB # 0)

SelectedCall ==
  [strategy |-> CASE method = 1 -> "blocked" [] method = 2 -> "standard"
                  [] OTHER -> "sequential",
   threads |-> IF method = 3 THEN 1 ELSE specificThreads]

C4_Safety ==
  BatchValid =>
    /\ table = << >>
    /\ Len(calls) <= 1 /\ Len(csv) <= 1
    /\ calls # << >> => calls[1] = SelectedCall
    /\ csv # << >> => pc = "exit"
    /\ pc = "exit" =>
         /\ exitStatus = 0
         /\ Len(calls) = 1
         /\ csv = <<[method |-> method, threads |-> specificThreads,
                     time |-> result.timestamp]>>

\* C4: a batch run with a valid configuration and threads >= 1 calls exactly
\* one strategy, the one method selects, with the given thread count, writes
\* exactly one CSV line method,threads,elapsed and no table, and terminates
\* with status 0.
C4_BatchSingleRun ==
  /\ [](C4_Safety)
  /\ BatchValid ~> (pc = "exit" /\ exitStatus = 0)

\* the blocked batch run with two threads has written its line and exited
C4_Witness ==
  /\ BatchValid /\ pc = "exit"
  /\ method = 1 /\ specificThreads = 2 /\ N > 0
  /\ Len(csv) = 1

\* C5 (as claimed): in interactive mode, once a valid configuration has been
\* entered, the selected strategy is eventually called and the table is
\* eventually reported.
C5_InteractiveEventuallyReports ==
  (~batchMode /\ entered /\ N >= 1 /\ ~(method = 1 /\ N % NEIB # 0))
     ~> (calls # << >> /\ table # << >>)

\* C6: whenever a strategy is called (the batch run, the sequential run, each
\* run of the sweep) every cell of c is 0, and whenever a call has returned c
\* is exactly a x b, with nothing left from an earlier run.
C6_ResetBeforeEveryRun ==
  /\ (running # "none" /\ spc = "loop" /\ p = 0) => c = ZeroMatrix(N)
  /\ Returned => c = Dense(a, b, N)

\* the second run of a sweep has returned
C6_Witness ==
  /\ pc = "sweep_call" /\ running = "none"
  /\ i >= 1 /\ N >= 1
  /\ c = Dense(a, b, N)

\* C7 (as claimed): a row of the table whose time is 0 carries neither inf
\* nor nan as its speedup or its efficiency.
C7_ZeroTimeReportsSentinel ==
  \A idx \in 1..Len(table) :
    table[idx].time = 0 =>
      /\ table[idx].speedup.kind \notin {"inf", "nan"}
      /\ table[idx].efficiency.kind \notin {"inf", "nan"}

One == [kind |-> "num", n |-> 1, d |-> 1]

\* x is the IEEE quotient num / den of two non-negative numbers
IsQuotient(x, num, den) ==
  IF den = 0
  THEN x.kind = (IF num = 0 THEN "nan" ELSE "inf")
  ELSE x.kind = "num" /\ x.d > 0 /\ x.n * den = x.d * num

C10_InputsImmutable ==
  [][allocated => (a' = a /\ b' = b)]_vars

\* a worker of the second run of a sweep has stored into c
C10_Witness ==
  /\ pc = "sweep_call" /\ i >= 1
  /\ running # "none" /\ c # ZeroMatrix(N)
  /\ a = initializeMatrix("a", N) /\ b = initializeMatrix("b", N)

\* the configuration the prompt of lines 54-57 has read is the rejected one
RejectedEntry ==
  ~batchMode /\ entered /\ method = 1 /\ N % NEIB # 0

\* C11: in interactive mode, once N, NEIB, method = 1 with N % NEIB # 0 have
\* been entered, the diagnostic is out, the program is back at the prompt for
\* N, NEIB and method (which can be taken), it has not exited, and no strategy
\* has been invoked.
C11_InteractiveRejectsAndReprompts ==
  RejectedEntry =>
    /\ diag
    /\ pc = "prompt" /\ ENABLED Prompt
    /\ exitStatus = -1
    /\ calls = << >> /\ running = "none"

\* an indivisible blocked configuration has just been entered
C11_Witness ==
  RejectedEntry /\ diag /\ N = 1 /\ NEIB = 2

\* C12: a batch invocation whose fourth argument is <= 0 is refused: no
\* strategy is ever invoked for it, and neither a CSV line nor a table row is
\* produced.
C12_NonPositiveThreadsRefused ==
  (batchMode /\ specificThreads <= 0) =>
    /\ calls = << >> /\ running = "none"
    /\ csv = << >> /\ table = << >>

\* control is in the else branch of line 119
FullAnalysis == allocated /\ ~(batchMode /\ specificThreads > 0)

\* the full analysis has left its loop (line 154) or its single run (line 133)
AnalysisDone == pc \in {"report", "exit"}

\* the invocations and the entries of a sweep so far: thread counts and keys
\* 1, 2, 3, ... in order, at most 16 of them, all 16 once the loop has ended
SweepInOrder ==
  /\ \A k \in 1..Len(calls) :
       calls[k] = [strategy |-> IF method = 1 THEN "blocked" ELSE "standard",
                   threads |-> k]
  /\ \A k \in 1..Len(results) :
       results[k].first = k /\ results[k].second.threads = k
  /\ Len(results) <= Len(calls) /\ Len(calls) <= Len(results) + 1
  /\ Len(calls) <= 16
  /\ AnalysisDone => (Len(calls) = 16 /\ Len(results) = 16)

\* the sequential method: one invocation, one entry keyed 1
SingleSequentialRun ==
  /\ \A k \in 1..Len(calls) : calls[k] = [strategy |-> "sequential", threads |-> 1]
  /\ \A k \in 1..Len(results) : results[k].first = 1
  /\ Len(results) <= Len(calls) /\ Len(calls) <= 1
  /\ AnalysisDone => (Len(calls) = 1 /\ Len(results) = 1)

\* a step leaves the table alone or appends one entry to it
AppendOnly ==
  \/ results' = results
  \/ /\ Len(results') = Len(results) + 1
     /\ SubSeq(results', 1, Len(results)) = results

\* C13: in the full-analysis branch a parallel method is invoked exactly 16
\* times, with thread counts 1..16 in that order, and the table ends with
\* exactly 16 entries keyed 1..16 ascending; the sequential method is invoked
\* exactly once and the table ends with exactly one entry keyed 1; an entry is
\* appended once and no step modifies or removes it afterwards.
C13_SweepTable ==
  /\ [](FullAnalysis => IF method = 3 THEN SingleSequentialRun ELSE SweepInOrder)
  /\ [][AppendOnly]_vars

\* a blocked sweep has ended with its 16 entries and its 16 table rows
C13_Witness ==
  /\ FullAnalysis /\ method = 1 /\ pc = "exit"
  /\ Len(calls) = 16 /\ Len(results) = 16 /\ Len(table) = 16
  /\ results[16].first = 16

\* C17: the threads field of every CSV line is the thread count of the command
\* line, whatever the method; with method 3 the Result of the run the line
\* reports carries threads = 1 all the same, and with a parallel method the
\* Result's threads is the command-line value too.
C17_CsvThreadsIsArgument ==
  \A k \in 1..Len(csv) :
    /\ csv[k].threads = specificThreads
    /\ result.threads = IF method = 3 THEN 1 ELSE specificThreads

\* a sequential batch run with thread count 2: the line says 2, the Result 1
C17_Witness ==
  /\ batchMode /\ method = 3 /\ specificThreads = 2
  /\ Len(csv) = 1 /\ csv[1].threads = 2 /\ result.threads = 1

\* the (q, r) block pairs that iteration u of the parallel loop executes
BlockPairs(u) ==
  {<<Body(u)[idx].j \div NEIB, Body(u)[idx].k \div NEIB>> : idx \in DOMAIN Body(u)}

\* the threads that have begun an operation of block triple (p, q, r) in the
\* current region
TripleThreads(q, r) ==
  {iters[u].owner : u \in {v \in DOMAIN iters :
      \E idx \in 1..Begun(v) :
        Body(v)[idx].j \div NEIB = q /\ Body(v)[idx].k \div NEIB = r}}

\* C14 as stated: in the blocked strategy the parallel region of one p shares
\* out NB * NB units of work, each of them one (q, r) block pair.
C14_UnitIsBlockPair ==
  (running = "blocked" /\ spc = "region") =>
    /\ Cardinality(DOMAIN iters) = NumBlocks(N, NEIB) * NumBlocks(N, NEIB)
    /\ \A u \in DOMAIN iters : Cardinality(BlockPairs(u)) = 1

\* C14, amended: in the blocked strategy the parallel region of one p shares
\* out NB units of work, one per block-column q; the unit q consists of the
\* block pairs (q, r) for every r in 0..NB-1, so that all the block triples
\* (p, q, r) of one q are executed by the same thread.
C14_UnitIsBlockColumn ==
  (running = "blocked" /\ spc = "region") =>
    LET NB == NumBlocks(N, NEIB) IN
    /\ DOMAIN iters = Rows(NB)
    /\ \A u \in DOMAIN iters : BlockPairs(u) = {<<u, r>> : r \in Rows(NB)}
    /\ \A q \in Rows(NB), r1 \in Rows(NB), r2 \in Rows(NB) :
         Cardinality(TripleThreads(q, r1) \cup TripleThreads(q, r2)) <= 1

\* two block-columns are with two threads, and the thread of block-column 0
\* has begun both (0, 0) and (0, 1)
C14_Witness ==
  /\ running = "blocked" /\ spc = "region" /\ NumBlocks(N, NEIB) = 2
  /\ iters[0].owner # 0 /\ iters[1].owner # 0
  /\ iters[0].owner # iters[1].owner
  /\ TripleThreads(0, 0) = {iters[0].owner}
  /\ TripleThreads(0, 1) = {iters[0].owner}

\* v is one of the values a cell takes in the k loop of lines 230-233 when the
\* loop ends with full: the sum of the first Len(v) products
IsPartialSum(v, full) ==
  Len(v) <= Len(full) /\ v = SubSeq(full, 1, Len(v))

\* C15: in the blocked strategy, whatever the team size and the interleaving,
\* every value a cell of c takes is a partial sum of the sequential strategy
\* for that cell: its first products in ascending k, each exactly once (and so
\* is every value a thread has loaded from it, the product it is about to add
\* being the next one).  The sequence of partial sums of every cell is the
\* sequential one.
C15_SequentialPartialSums ==
  (running = "blocked" \/ (Returned /\ method = 1)) =>
    LET seq == sequentialMatrixMultiplication(a, b, ZeroMatrix(N), N) IN
    /\ \A row \in Rows(N), col \in Rows(N) :
         /\ IsPartialSum(c[row][col], seq[row][col])
         /\ \A k \in 1..Len(c[row][col]) :
              c[row][col][k] = Product(a[row][k - 1], b[k - 1][col])
    /\ \A u \in DOMAIN iters :
         iters[u].st = "write" =>
           LET o == Body(u)[iters[u].pos]
           IN /\ IsPartialSum(iters[u].tmp, seq[o.i][o.j])
              /\ Len(iters[u].tmp) = o.k

\* with two blocks per dimension, a thread is about to add the product of the
\* second block (r = 1) to a cell that holds the product of the first
C15_Witness ==
  /\ running = "blocked" /\ spc = "region" /\ NumBlocks(N, NEIB) = 2
  /\ \E u \in DOMAIN iters :
       /\ iters[u].st = "write"
       /\ Body(u)[iters[u].pos].k \div NEIB = 1
       /\ Len(iters[u].tmp) = 1

----------------------------------------------------------------------------
(* Claims about numerical-integration.cpp (IntegrationSpec) *)

\* the sequential counterpart of the function called, on the same arguments
SequentialArea ==
  IF rule = "rectangle" THEN sequentialRectangleMethod(x1, x2, dx)
  ELSE sequentialTrapezoidalMethod(x1, x2, dx)

\* the sum of the terms f(x1 + i * dx) of the iterations i in the bag done
TermsOf(done) == BagOfAll(LAMBDA k : f(x1 + (k * dx)), done)

\* C16: in rectangleMethod and trapezoidalMethod, for every thread count >= 1
\* and every interleaving, no iteration's term is added twice and no update is
\* lost: the accumulators together always hold exactly the terms of the
\* iterations whose addition has completed, and the accumulator a thread has
\* loaded is unchanged when it stores; at the return every term f(x1 + i * dx),
\* i = 1..N (rectangle) or 1..N-1 (trapezoidal), has been added exactly once
\* and, in exact arithmetic, the area is that of the sequential counterpart.
C16_ReductionExact ==
  /\ ipc = "region" =>
       /\ adds \sqsubseteq SetToBag(Iterations(rule, steps))
       /\ CombineCopies(sCopies, team) = TermsOf(adds)
       /\ \A t \in 1..team : thr[t].st = "store" => thr[t].tmp = sCopies[t]
  /\ ipc = "done" =>
       /\ adds = SetToBag(Iterations(rule, steps))
       /\ sCopies[0] = TermsOf(adds)
       /\ area = SequentialArea

\* a rectangle call of three terms has returned, and two threads each hold a
\* non-zero private sum
C16_Witness ==
  /\ ipc = "done" /\ rule = "rectangle" /\ steps = 3 /\ team >= 2
  /\ sCopies[1] # EmptyBag /\ sCopies[2] # EmptyBag
  /\ area = SequentialArea

====
